---------------------------- MODULE Spec2Model ----------------------------
(***************************************************************************)
(* The membership reactor of artillery-core's epidemic cluster             *)
(* (epidemic/state.rs) and its handle (epidemic/cluster.rs).               *)
(*                                                                         *)
(* Every reactor owns one record of node: the fields of ArtilleryState,    *)
(* the position of its event loop and the output of its last step.  chan   *)
(* is the command channel (request_tx / receiver), net the receive buffer  *)
(* of each UDP socket, cluster the handle held by the embedder.            *)
(*                                                                         *)
(* The member table (epidemic/membership.rs) and the member record         *)
(* (epidemic/member.rs) are not among the source files; their operations   *)
(* are written from section 4.1 of the specification.                      *)
(***************************************************************************)
EXTENDS Integers, Sequences, FiniteSets, TLC

VARIABLES node, chan, net, cluster, now, env

vars == <<node, chan, net, cluster, now, env>>

(***************************************************************************)
(* Bounds of the model.                                                    *)
(***************************************************************************)
\* The clock runs from 0 to MaxTime.
MaxTime == 2
\* Datagrams the environment sends to a reactor.
MaxDatagrams == 2
\* Calls the embedder makes on a handle (add_seed_node, leave_cluster, drop).
MaxCalls == 1
\* Highest incarnation in a record the environment gossips.
MaxInc == 1
\* The clock of the join scenario runs from 0 to JoinHorizon.
JoinHorizon == 4
\* The clock of the failure scenario runs from 0 to FailHorizon.
FailHorizon == 4
\* Longest list of members enqueued in the digest at once.
MaxMembers == 2
\* Largest network_mtu given to build_message, in length units.
MaxMtu == 17

(***************************************************************************)
(* Identities, addresses, values.                                          *)
(***************************************************************************)
Hosts == {"A", "B", "C"}
NoAddr == "none"
AddrOf(h) == "a" \o h
Addrs == {AddrOf(h) : h \in Hosts}
OwnerOf(a) == CHOOSE h \in Hosts : AddrOf(h) = a

Alive == "Alive"
Suspect == "Suspect"
Down == "Down"
Left == "Left"
States == {Alive, Suspect, Down, Left}

Key == "key"
OtherKey == "other"

NoCmd == [type |-> "None"]

----------------------------------------------------------------------------
(***************************************************************************)
(* Sequence helpers (the slice and iterator operations of the source).     *)
(***************************************************************************)
Range(s) == {s[i] : i \in DOMAIN s}

prefix(s, i) == SubSeq(s, 1, i)

Min(S) == CHOOSE x \in S : \A y \in S : x <= y

\* Position of the first element of s that satisfies a test, given as the set
\* of positions that satisfy it; 0 when there is none.
First(P) == IF P = {} THEN 0 ELSE Min(P)

----------------------------------------------------------------------------
(***************************************************************************)
(* The member record and the member table (specification, sections 3 and   *)
(* 4.1).  The table is the vector of its members; self is the member       *)
(* whose host_key is the reactor's.                                        *)
(***************************************************************************)
Member(h, a, i, st) ==
    [host_key |-> h, remote_host |-> a, incarnation |-> i, state |-> st]

NoMember == [host_key |-> "none"]

\* ArtilleryMember::current(host_key): the local member; no address is known
\* for it, it starts Alive with incarnation 0.
member_current(h) == Member(h, NoAddr, 0, Alive)

\* Precedence of the states at equal incarnation: Left > Down > Suspect > Alive.
Rank(st) ==
    CASE st = Alive -> 0
      [] st = Suspect -> 1
      [] st = Down -> 2
      [] st = Left -> 3

KeyIndex(members, h) ==
    First({i \in DOMAIN members : members[i].host_key = h})

AddrIndex(members, a) ==
    First({i \in DOMAIN members : members[i].remote_host = a})

members_new(me) == <<me>>

members_has_member(members, addr) == AddrIndex(members, addr) # 0

members_add_member(members, m) == Append(members, m)

members_available_nodes(members) ==
    SelectSeq(members, LAMBDA m : m.state # Down /\ m.state # Left)

\* One record of an inbound digest merged into the table: the table after
\* it, the member it realized as newly seen or as changed (if any), and the
\* state that member had before.
merge_one(members, self, c, from) ==
    LET i == KeyIndex(members, c.host_key)
        none == [members |-> members, kind |-> "ignored", member |-> NoMember,
                 before |-> "none"]
    IN  IF c.host_key = self
        THEN IF c.state # Alive
             THEN LET me == [members[i] EXCEPT !.incarnation = @ + 1,
                                                !.state = Alive]
                  IN  [members |-> [members EXCEPT ![i] = me],
                       kind |-> "changed", member |-> me,
                       before |-> members[i].state]
             ELSE none
        ELSE IF i = 0
        THEN LET m == [c EXCEPT !.remote_host =
                                   IF @ = NoAddr THEN from ELSE @]
             IN  [members |-> Append(members, m),
                  kind |-> "new", member |-> m, before |-> "none"]
        ELSE IF \/ c.incarnation > members[i].incarnation
                \/ /\ c.incarnation = members[i].incarnation
                   /\ Rank(c.state) > Rank(members[i].state)
        THEN LET m == [members[i] EXCEPT !.incarnation = c.incarnation,
                                         !.state = c.state]
             IN  [members |-> [members EXCEPT ![i] = m],
                  kind |-> "changed", member |-> m,
                  before |-> members[i].state]
        ELSE none

\* apply_state_changes(changes, from) -> (newly_seen, changed); transitions
\* is the sequence of realized transitions in the order of the digest.
RECURSIVE merge_all(_, _, _, _, _)
merge_all(members, self, changes, from, acc) ==
    IF changes = <<>>
    THEN [members |-> members, transitions |-> acc]
    ELSE LET r == merge_one(members, self, Head(changes), from)
         IN  merge_all(r.members, self, Tail(changes), from,
                       IF r.kind = "ignored" THEN acc
                       ELSE Append(acc, [kind |-> r.kind, member |-> r.member,
                                         before |-> r.before]))

members_apply_state_changes(members, self, changes, from) ==
    LET r == merge_all(members, self, changes, from, <<>>)
        of(kind) == SelectSeq(r.transitions, LAMBDA t : t.kind = kind)
        pick(ts) == [i \in DOMAIN ts |-> ts[i].member]
    IN  [members |-> r.members,
         new |-> pick(of("new")),
         changed |-> pick(of("changed")),
         transitions |-> r.transitions]

\* mark_alive(addr) -> Option<Member>: Suspect -> Alive, no incarnation bump;
\* the member is returned only when a transition occurred.
members_mark_node_alive(members, addr) ==
    LET i == AddrIndex(members, addr)
    IN  IF i # 0 /\ members[i].state = Suspect
        THEN LET m == [members[i] EXCEPT !.state = Alive]
             IN  [members |-> [members EXCEPT ![i] = m], member |-> m]
        ELSE [members |-> members, member |-> NoMember]

\* time_out(expired_addrs) -> (suspect_list, down_list): one step per member
\* whose address expired, Alive -> Suspect and Suspect -> Down.
members_time_out_nodes(members, expired) ==
    LET hit(m) == m.remote_host \in expired
        step(m) == IF ~hit(m) THEN m
                   ELSE IF m.state = Alive THEN [m EXCEPT !.state = Suspect]
                   ELSE IF m.state = Suspect THEN [m EXCEPT !.state = Down]
                   ELSE m
        after == [i \in DOMAIN members |-> step(members[i])]
        moved(from, to) ==
            LET idx == SelectSeq([i \in DOMAIN members |-> i],
                                 LAMBDA i : /\ hit(members[i])
                                            /\ members[i].state = from)
            IN  [k \in DOMAIN idx |-> after[idx[k]]]
    IN  [members |-> after,
         suspect |-> moved(Alive, Suspect),
         down |-> moved(Suspect, Down)]

\* leave() -> Member: self becomes Left with its incarnation bumped.
members_leave(members, self) ==
    LET i == KeyIndex(members, self)
        me == [members[i] EXCEPT !.state = Left, !.incarnation = @ + 1]
    IN  [members |-> [members EXCEPT ![i] = me], member |-> me]

\* next_random() -> Option<Member>: the members it may return, the peers
\* (never self) whose state is Alive or Suspect.
members_next_random_member(members, self) ==
    {m \in Range(members) : /\ m.host_key # self
                            /\ m.state \in {Alive, Suspect}}

\* hosts_for_indirect_ping(k, exclude_addr): up to k Alive peers whose address
\* is not exclude_addr (the first k of the table; which k are drawn matters
\* only when there are more than k).
members_hosts_for_indirect_ping(members, self, k, exclude) ==
    LET c == SelectSeq(members, LAMBDA m : /\ m.host_key # self
                                           /\ m.state = Alive
                                           /\ m.remote_host # NoAddr
                                           /\ m.remote_host # exclude)
        n == IF Len(c) < k THEN Len(c) ELSE k
    IN  [i \in 1..n |-> c[i].remote_host]

----------------------------------------------------------------------------
(***************************************************************************)
(* Requests, messages, commands, events (state.rs, lines 28 to 72).        *)
(***************************************************************************)
Ping == [type |-> "Ping"]
Ack == [type |-> "Ack"]
PingRequest(a) == [type |-> "PingRequest", addr |-> a]
AckHost(m) == [type |-> "AckHost", member |-> m]

ArtilleryMessage(sender, cluster_key, request, state_changes) ==
    [sender |-> sender, cluster_key |-> cluster_key,
     request |-> request, state_changes |-> state_changes]

TargetedRequest(request, target) == [request |-> request, target |-> target]

AddSeed(a) == [type |-> "AddSeed", addr |-> a]
Respond(a, message) == [type |-> "Respond", src_addr |-> a, message |-> message]
React(request) == [type |-> "React", request |-> request]
LeaveCluster == [type |-> "LeaveCluster"]
Exit == [type |-> "Exit"]

MemberJoined(m) == [type |-> "MemberJoined", member |-> m]
MemberWentUp(m) == [type |-> "MemberWentUp", member |-> m]
MemberSuspectedDown(m) == [type |-> "MemberSuspectedDown", member |-> m]
MemberWentDown(m) == [type |-> "MemberWentDown", member |-> m]
MemberLeft(m) == [type |-> "MemberLeft", member |-> m]

\* ArtilleryStateChange::new(member): the unit of the digest, a snapshot of
\* the member (the instant it carries is not modelled).
ArtilleryStateChange(m) == m

(***************************************************************************)
(* The codec.  EncodedLen is the length of serde_json::to_string(message): *)
(* the envelope (sender, cluster key, field names), the request, and every *)
(* state change of the digest.  Lengths are counted in units of a quarter  *)
(* of a state change's encoding.                                           *)
(***************************************************************************)
RequestLen(request) ==
    CASE request.type = "Ping" -> 1
      [] request.type = "Ack" -> 1
      [] request.type = "PingRequest" -> 2
      [] request.type = "AckHost" -> 3

EncodedLen(message) ==
    2 + RequestLen(message.request) + 4 * Len(message.state_changes)

\* The first prefix whose encoding does not fit is returned; the whole
\* digest when every prefix fits.
build_message(sender, cluster_key, request, state_changes, network_mtu) ==
    LET msg(i) == ArtilleryMessage(sender, cluster_key, request,
                                   prefix(state_changes, i))
        over == {i \in 0..Len(state_changes) :
                     EncodedLen(msg(i)) >= network_mtu}
    IN  IF over = {} THEN msg(Len(state_changes)) ELSE msg(Min(over))

add_to_wait_list(wait_list, wait_addr, notify_addr) ==
    [wait_list EXCEPT ![wait_addr] = Append(@, notify_addr)]

\* A seed queue that keeps the address that answered.
remove_potential_seed_keeps(seed_queue, src_addr) ==
    seed_queue

remove_potential_seed(seed_queue, src_addr) ==
    SelectSeq(seed_queue, LAMBDA addr : addr # src_addr)

determine_member_event(member) ==
    CASE member.state = Alive -> MemberWentUp(member)
      [] member.state = Suspect -> MemberSuspectedDown(member)
      [] member.state = Down -> MemberWentDown(member)
      [] member.state = Left -> MemberLeft(member)

\* A digest that appends every member, whether or not its host_key is there.
enqueue_state_change_appends(state_changes, members) ==
    state_changes \o members

\* For each member in turn: the entry of its host_key is updated and the
\* function returns; a member with no entry is pushed.
RECURSIVE enqueue_state_change(_, _)
enqueue_state_change(state_changes, members) ==
    IF members = <<>> THEN state_changes
    ELSE LET member == Head(members)
             i == KeyIndex(state_changes, member.host_key)
         IN  IF i # 0
             THEN [state_changes EXCEPT ![i] = member]
             ELSE enqueue_state_change(
                      Append(state_changes, ArtilleryStateChange(member)),
                      Tail(members))

----------------------------------------------------------------------------
(***************************************************************************)
(* ArtilleryState.  A reactor's record s holds the fields of the struct,   *)
(* the position pc of event_loop with its locals start, elapsed and ready  *)
(* (whether events holds the socket's token), and what                     *)
(* the last step put out: the commands it sent on request_tx (enqueued),   *)
(* the events it sent on event_tx (published) and the datagrams it sent on *)
(* the socket (sent), and the pending entries ack_response removed         *)
(* (acked).  log is the whole event stream, kept in the scenarios that     *)
(* look at it.  The methods are written as functions from the record       *)
(* before the call to the record after it.                                 *)
(***************************************************************************)
Config(interval, timeout, mtu) ==
    [cluster_key |-> Key, ping_interval |-> interval, ping_timeout |-> timeout,
     network_mtu |-> mtu, ping_request_host_count |-> 2]

ArtilleryState_new(host_key, config) ==
    LET me == member_current(host_key)
    IN  [host_key |-> host_key,
         config |-> config,
         members |-> members_new(me),
         seed_queue |-> <<>>,
         pending_responses |-> <<>>,
         state_changes |-> <<ArtilleryStateChange(me)>>,
         wait_list |-> [a \in Addrs |-> <<>>],
         running |-> TRUE,
         pc |-> "top", start |-> 0, elapsed |-> 0, ready |-> FALSE,
         fatal |-> "none",
         last |-> NoCmd, enqueued |-> <<>>, published |-> <<>>, sent |-> <<>>,
         acked |-> <<>>, log |-> <<>>]

request_tx_send(s, cmd) == [s EXCEPT !.enqueued = Append(@, cmd)]

\* The assert_eq! of each event on its member's state holds by the way the
\* events are built; the event is sent on event_tx.
send_member_event(s, event) == [s EXCEPT !.published = Append(@, event)]

RECURSIVE send_member_events(_, _)
send_member_events(s, events) ==
    IF events = <<>> THEN s
    ELSE send_member_events(send_member_event(s, Head(events)), Tail(events))

RECURSIVE request_tx_send_all(_, _)
request_tx_send_all(s, cmds) ==
    IF cmds = <<>> THEN s
    ELSE request_tx_send_all(request_tx_send(s, Head(cmds)), Tail(cmds))

\* The message is built from the whole digest; a Ping is recorded as pending
\* with the digest of the message; the encoded length is asserted under the
\* MTU (the reactor thread panics otherwise) and the datagram is sent.
process_request(s, request, t) ==
    LET timeout == t + s.config.ping_timeout
        should_add_pending == request.request = Ping
        message == build_message(s.host_key, s.config.cluster_key,
                                 request.request, s.state_changes,
                                 s.config.network_mtu)
        s1 == IF should_add_pending
              THEN [s EXCEPT !.pending_responses =
                        Append(@, [deadline |-> timeout,
                                   target |-> request.target,
                                   state_changes |-> message.state_changes])]
              ELSE s
    IN  IF EncodedLen(message) < s.config.network_mtu
        THEN [s1 EXCEPT !.sent = Append(@, [to |-> request.target,
                                            message |-> message])]
        ELSE [s1 EXCEPT !.fatal = "assert", !.pc = "panicked"]

enqueue_seed_nodes(s) ==
    request_tx_send_all(s, [i \in DOMAIN s.seed_queue |->
                               React(TargetedRequest(Ping, s.seed_queue[i]))])

\* member is what next_random_member returned (NoMember for None).
enqueue_random_ping(s, member) ==
    IF member # NoMember
    THEN request_tx_send(s, React(TargetedRequest(Ping, member.remote_host)))
    ELSE s

send_ping_requests(s, target) ==
    IF target.remote_host # NoAddr
    THEN LET relays == members_hosts_for_indirect_ping(
                           s.members, s.host_key,
                           s.config.ping_request_host_count, target.remote_host)
         IN  request_tx_send_all(s, [i \in DOMAIN relays |->
                 React(TargetedRequest(PingRequest(target.remote_host),
                                       relays[i]))])
    ELSE s

RECURSIVE suspect_loop(_, _)
suspect_loop(s, suspect) ==
    IF suspect = <<>> THEN s
    ELSE suspect_loop(
             send_member_event(send_ping_requests(s, Head(suspect)),
                               MemberSuspectedDown(Head(suspect))),
             Tail(suspect))

\* A prune that times the expired hosts out twice in one run.
prune_escalates_twice(s, t) ==
    LET remaining == SelectSeq(s.pending_responses, LAMBDA e : e.deadline < t)
        expired == SelectSeq(s.pending_responses, LAMBDA e : ~(e.deadline < t))
        expired_hosts == {e.target : e \in Range(expired)}
        r1 == members_time_out_nodes(s.members, expired_hosts)
        r2 == members_time_out_nodes(r1.members, expired_hosts)
        down == r1.down \o r2.down
        s1 == [s EXCEPT !.pending_responses = remaining,
                        !.members = r2.members,
                        !.state_changes =
                            enqueue_state_change(
                                enqueue_state_change(@, down), r1.suspect)]
        s2 == suspect_loop(s1, r1.suspect)
    IN  send_member_events(s2, [i \in DOMAIN down |-> MemberWentDown(down[i])])

\* partition(|(t, _, _)| t < now): the entries with t < now are the first
\* vector, bound to remaining; the others are bound to expired.
prune_timed_out_responses(s, t) ==
    LET remaining == SelectSeq(s.pending_responses, LAMBDA e : e.deadline < t)
        expired == SelectSeq(s.pending_responses, LAMBDA e : ~(e.deadline < t))
        expired_hosts == {e.target : e \in Range(expired)}
        r == members_time_out_nodes(s.members, expired_hosts)
        s1 == [s EXCEPT !.pending_responses = remaining,
                        !.members = r.members,
                        !.state_changes =
                            enqueue_state_change(
                                enqueue_state_change(@, r.down), r.suspect)]
        s2 == suspect_loop(s1, r.suspect)
    IN  send_member_events(s2, [i \in DOMAIN r.down |-> MemberWentDown(r.down[i])])

\* An acknowledgement that clears the pending entries and leaves the digest
\* as it is.
ack_response_keeps_digest(s, src_addr) ==
    [s EXCEPT !.pending_responses =
                  SelectSeq(@, LAMBDA op : op.target # src_addr)]

\* Every pending entry of src_addr is removed; for each of them the digest
\* keeps only the entries whose host_key is not in the entry's snapshot.
ack_response(s, src_addr) ==
    LET to_remove == SelectSeq(s.pending_responses,
                               LAMBDA e : e.target = src_addr)
        acked == {c.host_key : c \in UNION {Range(e.state_changes) :
                                               e \in Range(to_remove)}}
    IN  [s EXCEPT !.state_changes =
                      SelectSeq(@, LAMBDA os : os.host_key \notin acked),
                  !.pending_responses =
                      SelectSeq(@, LAMBDA op : op \notin Range(to_remove)),
                  !.acked = @ \o to_remove]

ensure_node_is_member(s, src_addr, sender) ==
    IF members_has_member(s.members, src_addr) THEN s
    ELSE LET new_member == Member(sender, src_addr, 0, Alive)
             s1 == [s EXCEPT !.members = members_add_member(@, new_member),
                             !.state_changes =
                                 enqueue_state_change(@, <<new_member>>)]
         IN  send_member_event(s1, MemberJoined(new_member))

\* The events of the newly seen members are sent first, then those of the
\* changed members.
apply_state_changes(s, state_changes, from) ==
    LET r == members_apply_state_changes(s.members, s.host_key,
                                         state_changes, from)
        s1 == [s EXCEPT !.members = r.members,
                        !.state_changes =
                            enqueue_state_change(
                                enqueue_state_change(@, r.new), r.changed)]
        s2 == send_member_events(s1, [i \in DOMAIN r.new |->
                                         MemberJoined(r.new[i])])
    IN  send_member_events(s2, [i \in DOMAIN r.changed |->
                                   determine_member_event(r.changed[i])])

\* Only when the table reports a transition: the relays waiting for
\* src_addr get an AckHost and the list is cleared, the member is enqueued
\* in the digest and MemberWentUp is published.
mark_node_alive(s, src_addr) ==
    LET r == members_mark_node_alive(s.members, src_addr)
        member == r.member
        wait_list == s.wait_list[src_addr]
        s1 == [s EXCEPT !.members = r.members]
        s2 == request_tx_send_all(s1, [i \in DOMAIN wait_list |->
                  React(TargetedRequest(AckHost(member), wait_list[i]))])
        s3 == [s2 EXCEPT !.wait_list[src_addr] = <<>>,
                         !.state_changes =
                             enqueue_state_change(@, <<member>>)]
    IN  IF member # NoMember
        THEN send_member_event(s3, MemberWentUp(member))
        ELSE s

\* respond_to_message, the match on message.request.
respond_to_request(s, src_addr, request) ==
    CASE request.type = "Ping" ->
           request_tx_send(s, React(TargetedRequest(Ack, src_addr)))
      [] request.type = "Ack" ->
           mark_node_alive(ack_response(s, src_addr), src_addr)
      [] request.type = "PingRequest" ->
           request_tx_send(
               [s EXCEPT !.wait_list =
                    add_to_wait_list(@, request.addr, src_addr)],
               React(TargetedRequest(Ping, request.addr)))
      [] request.type = "AckHost" ->
           IF request.member.remote_host = NoAddr
           THEN [s EXCEPT !.fatal = "unwrap", !.pc = "panicked"]
           ELSE mark_node_alive(
                    ack_response(s, request.member.remote_host),
                    request.member.remote_host)

\* respond_to_message, the branch of a matching cluster key: the digest is
\* applied, the source is no longer a seed and is made a member, and the
\* request is answered.
respond_to_member(s, src_addr, message) ==
    respond_to_request(
        ensure_node_is_member(
            [apply_state_changes(s, message.state_changes, src_addr)
                EXCEPT !.seed_queue = remove_potential_seed(@, src_addr)],
            src_addr, message.sender),
        src_addr, message.request)

\* A reactor that answers the datagrams of every cluster.
respond_to_any_cluster(s, src_addr, message) ==
    respond_to_member(s, src_addr, message)

respond_to_message(s, src_addr, message) ==
    IF message.cluster_key # s.config.cluster_key
    THEN s
    ELSE respond_to_member(s, src_addr, message)

\* Exit returns its sender to the loop and changes nothing here.
process_internal_request(s, message, t) ==
    CASE message.type = "AddSeed" ->
           [s EXCEPT !.seed_queue = Append(@, message.addr)]
      [] message.type = "Respond" ->
           respond_to_message(s, message.src_addr, message.message)
      [] message.type = "React" ->
           process_request(prune_timed_out_responses(s, t), message.request, t)
      [] message.type = "LeaveCluster" ->
           LET r == members_leave(s.members, s.host_key)
           IN  [s EXCEPT !.members = r.members,
                         !.state_changes =
                             enqueue_state_change(@, <<r.member>>)]
      [] message.type = "Exit" -> s

----------------------------------------------------------------------------
(***************************************************************************)
(* The system: reactor threads, their channels and sockets, the handles.   *)
(***************************************************************************)
Nodes == {"A", "B"}

Dead == {"exited", "failed", "panicked"}

Datagram(src, message) == [src |-> src, ok |-> TRUE, message |-> message]

\* Bytes that serde_json::from_slice does not decode into a message.
Malformed(src) == [src |-> src, ok |-> FALSE]

\* send_to: each datagram joins the receive buffer of the socket bound to
\* its target, when a reactor of the system is bound there.
socket_send_to(nt, from, sent) ==
    [m \in Nodes |->
        IF m \in env.live
        THEN LET mine == SelectSeq(sent, LAMBDA d : d.to = AddrOf(m))
             IN  nt[m] \o [i \in DOMAIN mine |->
                               Datagram(AddrOf(from), mine[i].message)]
        ELSE nt[m]]

fresh(s) == [s EXCEPT !.last = NoCmd, !.enqueued = <<>>,
                      !.published = <<>>, !.sent = <<>>, !.acked = <<>>]

\* event_loop, lines 133 to 147: the timer and the running flag.
LoopTop(n) ==
    LET s == node[n]
        elapsed == now - s.start
        timeout == s.config.ping_interval
        candidates == members_next_random_member(s.members, s.host_key)
    IN  /\ n \in env.live
        /\ s.pc = "top"
        /\ \E member \in IF elapsed >= timeout /\ candidates # {}
                         THEN candidates ELSE {NoMember} :
           \E s1 \in {IF elapsed >= timeout
                      THEN [enqueue_random_ping(
                                enqueue_seed_nodes(fresh(s)), member)
                               EXCEPT !.start = now]
                      ELSE s} :
              /\ node' = [node EXCEPT ![n] =
                             [s1 EXCEPT !.enqueued = <<>>,
                                        !.elapsed = elapsed,
                                        !.pc = IF s1.running THEN "poll"
                                               ELSE "exited"]]
              /\ chan' = [chan EXCEPT ![n] = @ \o s1.enqueued]
        /\ UNCHANGED <<net, cluster, now, env>>

\* poll(remaining) returns: at once when nothing remains of the interval,
\* when a datagram has arrived, or when the interval has run out.  It is
\* not called when elapsed exceeds the interval, and events is then what
\* the poll before left in it.
PollReturns(n) ==
    \/ node[n].elapsed >= node[n].config.ping_interval
    \/ net[n] # <<>>
    \/ now - node[n].start >= node[n].config.ping_interval

Poll(n) ==
    /\ n \in env.live
    /\ node[n].pc = "poll"
    /\ PollReturns(n)
    /\ node' = [node EXCEPT
                   ![n].ready = IF node[n].elapsed <= node[n].config.ping_interval
                                THEN net[n] # <<>> ELSE @,
                   ![n].pc = "drain"]
    /\ UNCHANGED <<chan, net, cluster, now, env>>

\* event_loop, lines 156 to 163: one command received and processed; on Exit
\* the running flag is cleared and () is sent on the command's sender.
HandleCommand(n) ==
    /\ n \in env.live
    /\ node[n].pc = "drain"
    /\ chan[n] # <<>>
    /\ \E msg \in {Head(chan[n])} :
       \E s \in {process_internal_request(
                     [fresh(node[n]) EXCEPT !.last = msg], msg, now)} :
          /\ node' = [node EXCEPT ![n] =
                         [s EXCEPT !.running = @ /\ msg.type # "Exit",
                                   !.log = IF env.logging
                                           THEN @ \o s.published ELSE @]]
          /\ chan' = [chan EXCEPT ![n] = Tail(@) \o s.enqueued]
          /\ net' = socket_send_to(net, n, s.sent)
          /\ cluster' = IF msg.type = "Exit"
                        THEN [cluster EXCEPT ![n].acked = TRUE]
                        ELSE cluster
    /\ UNCHANGED <<now, env>>

\* try_recv finds the channel empty: on to the events of the poll, and
\* straight back to the top of the loop when it returned none.
DrainDone(n) ==
    /\ n \in env.live
    /\ node[n].pc = "drain"
    /\ chan[n] = <<>>
    /\ node' = [node EXCEPT ![n] =
                   [fresh(@) EXCEPT !.pc = IF node[n].ready THEN "inbound"
                                           ELSE "top"]]
    /\ UNCHANGED <<chan, net, cluster, now, env>>

\* event_loop, lines 166 to 173: one datagram read from the socket; the
\* decoded message is sent to the channel as Respond, a decode error is
\* returned from event_loop by the ? operator.
Receive(n) ==
    LET d == Head(net[n])
    IN  /\ n \in env.live
        /\ node[n].pc = "inbound"
        /\ net[n] # <<>>
        /\ net' = [net EXCEPT ![n] = Tail(@)]
        /\ IF d.ok
           THEN /\ chan' = [chan EXCEPT ![n] =
                               Append(@, Respond(d.src, d.message))]
                /\ UNCHANGED node
           ELSE /\ node' = [node EXCEPT ![n].pc = "failed",
                                        ![n].fatal = "decode"]
                /\ UNCHANGED chan
        /\ UNCHANGED <<cluster, now, env>>

\* recv_from would block: back to the top of the loop.
ReceiveDone(n) ==
    /\ n \in env.live
    /\ node[n].pc = "inbound"
    /\ net[n] = <<>>
    /\ node' = [node EXCEPT ![n].pc = "top"]
    /\ UNCHANGED <<chan, net, cluster, now, env>>

(***************************************************************************)
(* The handle (cluster.rs).  A send on comm succeeds while the reactor     *)
(* thread holds the receiver.  The embedder and the environment act while  *)
(* the reactor waits in poll, where it spends the interval; the body of    *)
(* the loop is short.                                                      *)
(***************************************************************************)
add_seed_node(n, addr) ==
    /\ n \in env.live
    /\ cluster[n].handle = "held"
    /\ node[n].pc = "poll"
    /\ env.calls < MaxCalls
    /\ chan' = [chan EXCEPT ![n] = Append(@, AddSeed(addr))]
    /\ env' = [env EXCEPT !.calls = @ + 1]
    /\ UNCHANGED <<node, net, cluster, now>>

leave_cluster(n) ==
    /\ n \in env.live
    /\ cluster[n].handle = "held"
    /\ node[n].pc = "poll"
    /\ env.calls < MaxCalls
    /\ chan' = [chan EXCEPT ![n] = Append(@, LeaveCluster)]
    /\ env' = [env EXCEPT !.calls = @ + 1]
    /\ UNCHANGED <<node, net, cluster, now>>

\* Drop for Cluster: Exit is sent, then the thread blocks in rx.recv().
drop(n) ==
    /\ n \in env.live
    /\ cluster[n].handle = "held"
    /\ node[n].pc = "poll"
    /\ env.calls < MaxCalls
    /\ chan' = [chan EXCEPT ![n] = Append(@, Exit)]
    /\ cluster' = [cluster EXCEPT ![n].handle = "dropping"]
    /\ env' = [env EXCEPT !.calls = @ + 1]
    /\ UNCHANGED <<node, net, now>>

\* rx.recv() returns: the handle is released.
drop_return(n) ==
    /\ n \in env.live
    /\ cluster[n].handle = "dropping"
    /\ cluster[n].acked
    /\ cluster' = [cluster EXCEPT ![n].handle = "released"]
    /\ UNCHANGED <<node, chan, net, now, env>>

(***************************************************************************)
(* The environment: peers that are not reactors of the system send         *)
(* datagrams; time passes.                                                 *)
(***************************************************************************)
SelfKey == "A"

\* What the environment's records say of a third peer (incarnation, state),
\* of the sending peer itself and of the reactor.
EnvClaims ==
    {<<0, Alive>>, <<0, Suspect>>, <<0, Down>>, <<0, Left>>, <<MaxInc, Alive>>}

EnvRecords ==
    {Member("C", AddrOf("C"), c[1], c[2]) : c \in EnvClaims}
    \cup {Member("B", AddrOf("B"), 0, Suspect),
          Member("B", AddrOf("B"), MaxInc, Alive)}
    \cup {Member(SelfKey, AddrOf(SelfKey), 0, st) : st \in {Suspect, Down}}

PairRecords ==
    {Member(SelfKey, AddrOf(SelfKey), 0, Suspect),
     Member("B", AddrOf("B"), MaxInc, Suspect),
     Member("C", AddrOf("C"), 0, Alive)}

EnvDigests ==
    {<<>>} \cup {<<r>> : r \in EnvRecords}
    \cup {p \in PairRecords \X PairRecords : p[1].host_key # p[2].host_key}

EnvRequests ==
    {Ping, Ack, PingRequest(AddrOf("C")),
     AckHost(Member("C", AddrOf("C"), 0, Alive))}

EnvDatagrams ==
    \* peer B acknowledges and gossips
    {Datagram(AddrOf("B"), ArtilleryMessage("B", Key, Ack, d)) : d \in EnvDigests}
    \* every request from peer B, an Ack from peer C, and a Ping of B sent
    \* from the address of C
    \cup {Datagram(AddrOf("B"), ArtilleryMessage("B", Key, r, <<>>)) :
            r \in EnvRequests}
    \cup {Datagram(AddrOf("C"), ArtilleryMessage("C", Key, r, <<>>)) :
            r \in {Ack}}
    \cup {Datagram(AddrOf("C"), ArtilleryMessage("B", Key, Ping, <<>>))}
    \* a node of another cluster
    \cup {Datagram(AddrOf("C"),
                   ArtilleryMessage("C", OtherKey, r,
                                    <<Member("B", AddrOf("B"), MaxInc, Suspect)>>)) :
            r \in EnvRequests}
    \cup {Malformed(AddrOf("C"))}

EnvDatagram(n) ==
    /\ n \in env.live
    /\ env.hostile
    /\ node[n].pc = "poll"
    /\ env.datagrams < MaxDatagrams
    /\ \E d \in EnvDatagrams : net' = [net EXCEPT ![n] = Append(@, d)]
    /\ env' = [env EXCEPT !.datagrams = @ + 1]
    /\ UNCHANGED <<node, chan, cluster, now>>

\* Time passes while the reactors wait in poll (or are gone).  In a
\* synchronous scenario it passes only when every reactor is blocked there.
Idle == \A n \in env.live : node[n].pc \in Dead \cup {"poll"}

Quiet == \A n \in env.live : node[n].pc = "poll" => ~PollReturns(n)

Advance ==
    /\ now < env.horizon
    /\ Idle
    /\ env.sync => Quiet
    /\ now' = now + 1
    /\ UNCHANGED <<node, chan, net, cluster, env>>

----------------------------------------------------------------------------
(***************************************************************************)
(* One reactor and its handle in a hostile network.                        *)
(***************************************************************************)
Init ==
    /\ node = [n \in Nodes |-> ArtilleryState_new(n, Config(1, 1, 14))]
    /\ chan = [n \in Nodes |-> <<>>]
    /\ net = [n \in Nodes |-> <<>>]
    /\ cluster = [n \in Nodes |-> [handle |-> "held", acked |-> FALSE]]
    /\ now = 0
    /\ env = [live |-> {"A"}, hostile |-> TRUE, logging |-> FALSE,
              sync |-> FALSE, horizon |-> MaxTime, datagrams |-> 0, calls |-> 0]

Reactor(n) ==
    \/ LoopTop(n)
    \/ Poll(n)
    \/ HandleCommand(n)
    \/ DrainDone(n)
    \/ Receive(n)
    \/ ReceiveDone(n)

Handle(n) ==
    \/ \E addr \in Addrs \ {AddrOf(n)} : add_seed_node(n, addr)
    \/ leave_cluster(n)
    \/ drop(n)
    \/ drop_return(n)

Next ==
    \/ \E n \in Nodes : Reactor(n) \/ Handle(n) \/ EnvDatagram(n)
    \/ Advance

Spec == Init /\ [][Next]_vars

----------------------------------------------------------------------------
(***************************************************************************)
(* Two reactors A and B on a network that delivers; the embedder of B has  *)
(* called add_seed_node(A) on the new handle.  Every thread that can run   *)
(* does run, and time passes.                                              *)
(***************************************************************************)
InitSeeded(horizon) ==
    /\ node = [n \in Nodes |-> ArtilleryState_new(n, Config(1, 1, 14))]
    /\ chan = [n \in Nodes |->
                  IF n = "B" THEN <<AddSeed(AddrOf("A"))>> ELSE <<>>]
    /\ net = [n \in Nodes |-> <<>>]
    /\ cluster = [n \in Nodes |-> [handle |-> "held", acked |-> FALSE]]
    /\ now = 0
    /\ env = [live |-> Nodes, hostile |-> FALSE, logging |-> TRUE,
              sync |-> TRUE, horizon |-> horizon, datagrams |-> 0,
              calls |-> 1]

InitJoin == InitSeeded(JoinHorizon)

NextJoin ==
    \/ \E n \in Nodes : Reactor(n)
    \/ Advance

\* Reactor(n) is enabled exactly when the thread of n is alive and not
\* blocked in poll.
Runnable(n) ==
    /\ n \in env.live
    /\ node[n].pc \notin Dead
    /\ node[n].pc = "poll" => PollReturns(n)

\* Time passes, and a thread that can run does run: weak fairness of
\* Advance and of each Reactor(n), the latter with its enabling condition
\* written out.
FairJoin ==
    /\ WF_vars(Advance)
    /\ \A n \in Nodes : []<>(~Runnable(n)) \/ []<><<Reactor(n)>>_vars

SpecJoin == InitJoin /\ [][NextJoin]_vars /\ FairJoin

(***************************************************************************)
(* The same two reactors, where the process of B may be killed: its socket *)
(* is closed and it answers nothing from then on.                          *)
(***************************************************************************)
kill(n) ==
    /\ n \in env.live
    /\ env' = [env EXCEPT !.live = @ \ {n}]
    /\ net' = [net EXCEPT ![n] = <<>>]
    /\ UNCHANGED <<node, chan, cluster, now>>

InitFail == InitSeeded(FailHorizon)

NextFail ==
    \/ \E n \in Nodes : Reactor(n)
    \/ kill("B")
    \/ Advance

SpecFail == InitFail /\ [][NextFail]_vars /\ FairJoin

----------------------------------------------------------------------------
(***************************************************************************)
(* Bootstrap: the embedder has called add_seed_node for peers B and C      *)
(* before the reactor's first poll returns; B and C answer, or not, as the *)
(* hostile network decides.                                                *)
(***************************************************************************)
InitSeeds ==
    /\ node = [n \in Nodes |-> ArtilleryState_new(n, Config(1, 1, 14))]
    /\ chan = [n \in Nodes |->
                  IF n = SelfKey
                  THEN <<AddSeed(AddrOf("B")), AddSeed(AddrOf("C"))>>
                  ELSE <<>>]
    /\ net = [n \in Nodes |-> <<>>]
    /\ cluster = [n \in Nodes |-> [handle |-> "held", acked |-> FALSE]]
    /\ now = 0
    /\ env = [live |-> {SelfKey}, hostile |-> TRUE, logging |-> FALSE,
              sync |-> FALSE, horizon |-> MaxTime, datagrams |-> 0,
              calls |-> MaxCalls]

NextSeeds ==
    \/ \E n \in Nodes : Reactor(n)
    \/ \E n \in Nodes : EnvDatagram(n)
    \/ Advance

SpecSeeds == InitSeeds /\ [][NextSeeds]_vars

----------------------------------------------------------------------------
(***************************************************************************)
(* The outgoing digest on its own.  The digest of one reactor starts as    *)
(* the constructor leaves it and is changed by the two operations the      *)
(* source has on it: enqueue_state_change with a list of members (of a     *)
(* table operation), and the retain of ack_response with the host_keys of  *)
(* acknowledged snapshots.  build_message reads it.  env holds the last    *)
(* operation: its inputs, the digest before it, and the message built.     *)
(***************************************************************************)
DigestNode == "A"

DigestRecords ==
    {Member(h, IF h = DigestNode THEN NoAddr ELSE AddrOf(h), 0, st) :
        h \in Hosts, st \in {Alive, Suspect}}

RECURSIVE SeqsUpTo(_, _)
SeqsUpTo(S, k) ==
    IF k = 0 THEN {<<>>}
    ELSE LET shorter == SeqsUpTo(S, k - 1)
         IN  shorter \cup {Append(q, x) : q \in shorter, x \in S}

MemberLists == SeqsUpTo(DigestRecords, MaxMembers) \ {<<>>}

NoOp ==
    [op |-> "new", before |-> <<>>, members |-> <<>>, keys |-> {},
     mtu |-> 0, message |-> ArtilleryMessage(DigestNode, Key, Ping, <<>>)]

InitDigest ==
    /\ node = [n \in Nodes |-> ArtilleryState_new(n, Config(1, 1, 14))]
    /\ chan = [n \in Nodes |-> <<>>]
    /\ net = [n \in Nodes |-> <<>>]
    /\ cluster = [n \in Nodes |-> [handle |-> "held", acked |-> FALSE]]
    /\ now = 0
    /\ env = NoOp

\* enqueue_state_change(&mut self.state_changes, &members)
Enqueue ==
    /\ \E members \in MemberLists :
          /\ node' = [node EXCEPT ![DigestNode].state_changes =
                                     enqueue_state_change(@, members)]
          /\ env' = [NoOp EXCEPT !.op = "enqueue",
                                 !.before = node[DigestNode].state_changes,
                                 !.members = members]
    /\ UNCHANGED <<chan, net, cluster, now>>

\* ack_response: self.state_changes.retain(..) with the host_keys of an
\* acknowledged snapshot.
Retain ==
    /\ \E keys \in SUBSET Hosts \ {{}} :
          /\ node' = [node EXCEPT ![DigestNode].state_changes =
                         SelectSeq(@, LAMBDA os : os.host_key \notin keys)]
          /\ env' = [NoOp EXCEPT !.op = "retain",
                                 !.before = node[DigestNode].state_changes,
                                 !.keys = keys]
    /\ UNCHANGED <<chan, net, cluster, now>>

\* process_request: build_message with the digest as it is.
Build ==
    /\ \E request \in EnvRequests, mtu \in 1..MaxMtu :
          env' = [NoOp EXCEPT !.op = "build",
                              !.before = node[DigestNode].state_changes,
                              !.mtu = mtu,
                              !.message =
                                  build_message(DigestNode, Key, request,
                                                node[DigestNode].state_changes,
                                                mtu)]
    /\ UNCHANGED <<node, chan, net, cluster, now>>

NextDigest ==
    \/ Enqueue
    \/ Retain
    \/ Build

SpecDigest == InitDigest /\ [][NextDigest]_vars

----------------------------------------------------------------------------
(***************************************************************************)
(* Properties.                                                             *)
(*                                                                         *)
(* Handles(n) holds of the steps in which reactor n processes the command  *)
(* at the head of its channel: in the drain phase with a command waiting,  *)
(* that is the only step of n there is.  Responds(n) narrows it to a       *)
(* datagram of the reactor's own cluster.                                  *)
(***************************************************************************)
Handles(n) ==
    /\ node[n].pc = "drain"
    /\ chan[n] # <<>>
    /\ node'[n].last = Head(chan[n])
    /\ <<node[n], chan[n]>>' # <<node[n], chan[n]>>

Responds(n) ==
    /\ Handles(n)
    /\ Head(chan[n]).type = "Respond"
    /\ Head(chan[n]).message.cluster_key = node[n].config.cluster_key

Responded(n) ==
    /\ node[n].last.type = "Respond"
    /\ node[n].last.message.cluster_key = node[n].config.cluster_key

\* The address an Ack or AckHost acknowledges.
AckedAddr(cmd) ==
    IF cmd.message.request.type = "Ack" THEN cmd.src_addr
    ELSE cmd.message.request.member.remote_host

IsAck(cmd) == cmd.message.request.type \in {"Ack", "AckHost"}

\* C1: whenever the empty digest fits the MTU, every React command the
\* reactor processes passes the assertion of process_request, and the
\* datagram it sends encodes to strictly fewer than network_mtu.
C1_MtuBound ==
    \A n \in Nodes :
        LET s == node[n]
        IN  (/\ s.last.type = "React"
             /\ EncodedLen(ArtilleryMessage(s.host_key, s.config.cluster_key,
                                            s.last.request.request, <<>>))
                    < s.config.network_mtu)
            => /\ s.fatal # "assert"
               /\ \A d \in Range(s.sent) :
                      EncodedLen(d.message) < s.config.network_mtu

\* C2: a datagram whose cluster_key differs from the reactor's is dropped
\* whole: the member table, the seed queue, the pending responses, the wait
\* list and the digest stay as they were, and nothing is enqueued, published
\* or sent.
C2_ClusterKeyDemux ==
    [][\A n \in Nodes :
          (/\ Handles(n)
           /\ Head(chan[n]).type = "Respond"
           /\ Head(chan[n]).message.cluster_key # node[n].config.cluster_key)
          => /\ node'[n].members = node[n].members
             /\ node'[n].seed_queue = node[n].seed_queue
             /\ node'[n].pending_responses = node[n].pending_responses
             /\ node'[n].wait_list = node[n].wait_list
             /\ node'[n].state_changes = node[n].state_changes
             /\ node'[n].published = <<>>
             /\ node'[n].sent = <<>>
             /\ chan'[n] = Tail(chan[n])
             /\ net' = net]_vars

\* C2 witness: the reactor has processed a Ping of another cluster that
\* carried a state change, and knows no member but itself.
C2_Witness ==
    \E n \in Nodes :
        /\ node[n].last.type = "Respond"
        /\ node[n].last.message.cluster_key # node[n].config.cluster_key
        /\ node[n].last.message.request.type = "Ping"
        /\ node[n].last.message.state_changes # <<>>
        /\ Len(node[n].members) = 1
        /\ node[n].pc = "drain"

\* C4: once drop has returned, the event loop has terminated.
C4_ShutdownHandshake ==
    \A n \in Nodes :
        cluster[n].handle = "released" => node[n].pc \in Dead

\* C10: a datagram that fails to decode is logged and dropped: the loop goes
\* on, and the state of the reactor is as it was.
C10_DecodeNonFatal ==
    [][\A n \in Nodes :
          (/\ node[n].pc = "inbound"
           /\ net[n] # <<>>
           /\ ~Head(net[n]).ok
           /\ net'[n] = Tail(net[n]))
          => /\ node'[n].pc \notin Dead
             /\ node'[n].members = node[n].members
             /\ node'[n].state_changes = node[n].state_changes]_vars

\* The host_keys of the snapshots of the pending entries that the Ack at the
\* head of the channel acknowledges.
AckedKeys(n) ==
    {c.host_key :
        c \in UNION {Range(e.state_changes) :
                        e \in {x \in Range(node[n].pending_responses) :
                                  x.target = AckedAddr(Head(chan[n]))}}}

Acks(n) ==
    /\ Responds(n)
    /\ IsAck(Head(chan[n]))
    /\ AckedAddr(Head(chan[n])) # NoAddr

\* No pending entry of the acknowledged address remains, and those of the
\* other targets are as they were.
AckClearsPending(n) ==
    /\ \A e \in Range(node'[n].pending_responses) :
           e.target # AckedAddr(Head(chan[n]))
    /\ node'[n].pending_responses =
           SelectSeq(node[n].pending_responses,
                     LAMBDA e : e.target # AckedAddr(Head(chan[n])))

\* C3, as stated: after an Ack (or AckHost) for addr is handled, no pending
\* entry of addr remains, the pending entries of other targets are
\* untouched, and the digest has no entry whose host_key was in an
\* acknowledged snapshot.
C3_AckClearsDigest ==
    [][\A n \in Nodes :
          Acks(n) =>
              /\ AckClearsPending(n)
              /\ \A c \in Range(node'[n].state_changes) :
                     c.host_key \notin AckedKeys(n)]_vars

\* C3, amended: the same, except that the digest may hold the entry that
\* mark_node_alive enqueues for the member at addr when the Ack takes it
\* from Suspect to Alive (the member of the MemberWentUp it publishes).
C3_AckClearsDigestButRevived ==
    [][\A n \in Nodes :
          Acks(n) =>
              /\ AckClearsPending(n)
              /\ \A c \in Range(node'[n].state_changes) :
                     c.host_key \in AckedKeys(n) =>
                         /\ c.remote_host = AckedAddr(Head(chan[n]))
                         /\ c.state = Alive
                         /\ MemberWentUp(c) \in Range(node'[n].published)]_vars

\* C3 witness: an Ack has been handled that acknowledged a Ping whose
\* snapshot held the sender, and that revived the sender: its record is in
\* the digest again.
C3_Witness ==
    \E n \in Nodes :
        /\ Responded(n)
        /\ node[n].last.message.request.type = "Ack"
        /\ \E e \in Range(node[n].acked) :
           \E c \in Range(node[n].state_changes) :
               /\ c.host_key \in {x.host_key : x \in Range(e.state_changes)}
               /\ MemberWentUp(c) \in Range(node[n].published)
        /\ \A e \in Range(node[n].pending_responses) :
               e.target # node[n].last.src_addr

\* C5: when an Ack of T is handled while relays wait for T, every one of
\* them is sent an AckHost of T and the wait list of T is emptied, whatever
\* the state of T in the table.
C5_RelayDrained ==
    [][\A n \in Nodes :
          (/\ Responds(n)
           /\ Head(chan[n]).message.request.type = "Ack"
           /\ node[n].wait_list[Head(chan[n]).src_addr] # <<>>)
          => /\ node'[n].wait_list[Head(chan[n]).src_addr] = <<>>
             /\ \A relay \in Range(node[n].wait_list[Head(chan[n]).src_addr]) :
                \E c \in Range(node'[n].enqueued) :
                    /\ c.type = "React"
                    /\ c.request.target = relay
                    /\ c.request.request.type = "AckHost"
                    /\ c.request.request.member.remote_host =
                           Head(chan[n]).src_addr]_vars

\* The events of the transitions the table realizes in merging a digest,
\* in the order of the digest.
TransitionEvents(members, self, changes, from) ==
    LET ts == members_apply_state_changes(members, self, changes, from).transitions
    IN  [i \in DOMAIN ts |->
            IF ts[i].kind = "new" THEN MemberJoined(ts[i].member)
            ELSE determine_member_event(ts[i].member)]

\* C6: the events published for an inbound digest are one per realized
\* transition, in the order in which the transitions were realized.
C6_EventCausality ==
    [][\A n \in Nodes :
          Responds(n) =>
              LET expected == TransitionEvents(
                                  node[n].members, node[n].host_key,
                                  Head(chan[n]).message.state_changes,
                                  Head(chan[n]).src_addr)
              IN  /\ Len(node'[n].published) >= Len(expected)
                  /\ SubSeq(node'[n].published, 1, Len(expected)) = expected]_vars

\* The digest holds the reactor's own record with state Left.
SelfLeft(s) ==
    \E c \in Range(s.state_changes) :
        c.host_key = s.host_key /\ c.state = Left

\* C7: while the reactor is Left, its own Left record leaves the digest only
\* when an acknowledged Ping carried it.
C7_LeftKeptUntilAcked ==
    [][\A n \in Nodes :
          (/\ SelfLeft(node[n])
           /\ ~SelfLeft(node'[n])
           /\ node'[n].members[KeyIndex(node'[n].members, n)].state = Left)
          => \E e \in Range(node'[n].acked) :
             \E c \in Range(e.state_changes) :
                 c.host_key = n /\ c.state = Left]_vars

\* The MemberJoined events of host_key h in a reactor's event stream.
Joined(s, h) ==
    {i \in DOMAIN s.log :
        s.log[i].type = "MemberJoined" /\ s.log[i].member.host_key = h}

\* s holds h as an Alive member.
HoldsAlive(s, h) ==
    \E m \in Range(s.members) : m.host_key = h /\ m.state = Alive

TwoNodesJoined ==
    /\ Cardinality(Joined(node["A"], "B")) = 1
    /\ Cardinality(Joined(node["B"], "A")) = 1
    /\ HoldsAlive(node["A"], "B")
    /\ HoldsAlive(node["B"], "A")
    /\ AddrOf("A") \notin Range(node["B"].seed_queue)

C9_NoProbeAfterDown ==
    [][\A n \in Nodes :
       \A e \in Range(node[n].log) \cup Range(node'[n].published) :
           (/\ e.type = "MemberWentDown"
            /\ \E m \in Range(node'[n].members) :
                   m.host_key = e.member.host_key /\ m.state = Down)
           => \A d \in Range(node'[n].sent) :
                  ~(d.to = e.member.remote_host /\ d.message.request = Ping)]_vars

\* The reactor's own member in its table.
SelfMember(s) == s.members[KeyIndex(s.members, s.host_key)]

\* C11: whenever a Respond command is handled whose digest holds a record
\* that says the reactor itself is Suspect or Down, the reactor's incarnation
\* strictly increases, and the outgoing digest afterwards holds an entry of
\* the reactor's host_key with state Alive and the new incarnation.
C11_SelfDefense ==
    [][\A n \in Nodes :
          (/\ Responds(n)
           /\ \E c \in Range(Head(chan[n]).message.state_changes) :
                  c.host_key = n /\ c.state \in {Suspect, Down})
          => /\ SelfMember(node'[n]).incarnation > SelfMember(node[n]).incarnation
             /\ \E e \in Range(node'[n].state_changes) :
                    /\ e.host_key = n
                    /\ e.state = Alive
                    /\ e.incarnation = SelfMember(node'[n]).incarnation]_vars

\* The transitions the table realizes for the digest of the Respond command
\* at the head of the channel, and the table after them.
Merged(n) ==
    members_apply_state_changes(node[n].members, node[n].host_key,
                                Head(chan[n]).message.state_changes,
                                Head(chan[n]).src_addr)

\* The Respond command at the head of the channel is an Ack (or AckHost) of
\* the address of member m, which the table holds as Suspect once the digest
\* is merged: mark_node_alive takes it from Suspect to Alive.
RevivedByAck(n, members, m) ==
    /\ IsAck(Head(chan[n]))
    /\ \E x \in Range(members) :
           /\ x.host_key = m.host_key
           /\ x.remote_host = AckedAddr(Head(chan[n]))
           /\ x.remote_host # NoAddr
           /\ x.state = Suspect

\* C12: every MemberWentUp(m) the reactor publishes of a peer m is of a
\* member that the table held as Suspect immediately before the update that
\* made it Alive.
C12_WentUpOnlyFromSuspect ==
    [][\A n \in Nodes :
          Responds(n) =>
              \A e \in Range(node'[n].published) :
                  (e.type = "MemberWentUp" /\ e.member.host_key # n) =>
                      \/ \E t \in Range(Merged(n).transitions) :
                             /\ t.kind = "changed"
                             /\ t.member = e.member
                             /\ t.before = Suspect
                      \/ RevivedByAck(n, Merged(n).members, e.member)]_vars

\* A React command is handled: prune_timed_out_responses runs, and then
\* process_request.
Reacts(n) ==
    /\ Handles(n)
    /\ Head(chan[n]).type = "React"

\* The pending entry process_request records for the Ping it sends at now.
IsNewPending(n, e) ==
    /\ Head(chan[n]).request.request = Ping
    /\ e.target = Head(chan[n]).request.target
    /\ e.deadline = now + node[n].config.ping_timeout

\* C13: a run of prune_timed_out_responses retains exactly the pending
\* entries whose deadline is later than now and removes exactly those whose
\* deadline is now or earlier (after it, process_request may append the
\* entry of the Ping it sends).
C13_PendingPartition ==
    [][\A n \in Nodes :
          Reacts(n) =>
              LET kept == SelectSeq(node[n].pending_responses,
                                    LAMBDA e : e.deadline > now)
                  after == node'[n].pending_responses
              IN  \/ after = kept
                  \/ /\ Len(after) = Len(kept) + 1
                     /\ SubSeq(after, 1, Len(kept)) = kept
                     /\ IsNewPending(n, after[Len(after)])]_vars

\* C14: the timeout path moves a peer to Suspect or Down only if a Ping sent
\* to it stayed unacknowledged until its deadline: when a React command
\* publishes MemberSuspectedDown or MemberWentDown of a member, a pending
\* entry of that member's address had a deadline that is now or earlier.
C14_NoPrematureSuspicion ==
    [][\A n \in Nodes :
          Reacts(n) =>
              \A e \in Range(node'[n].published) :
                  e.type \in {"MemberSuspectedDown", "MemberWentDown"} =>
                      \E p \in Range(node[n].pending_responses) :
                          /\ p.target = e.member.remote_host
                          /\ p.deadline <= now]_vars

Max(S) == CHOOSE x \in S : \A y \in S : x >= y

\* The prefix lengths of a digest whose message encodes to strictly fewer
\* than mtu.
Fitting(message, digest, mtu) ==
    {i \in 0..Len(digest) :
        EncodedLen([message EXCEPT !.state_changes = prefix(digest, i)]) < mtu}

\* C15: build_message returns the digest's prefix of the largest length
\* whose message encodes to strictly fewer than network_mtu, and the whole
\* digest when not even the empty one fits.
C15_LargestFittingPrefix ==
    env.op = "build" =>
        LET F == Fitting(env.message, env.before, env.mtu)
        IN  env.message.state_changes =
                IF F = {} THEN env.before ELSE prefix(env.before, Max(F))

\* The last member of a list with a given host_key (latest wins).
LatestOf(members, h) ==
    members[Max({i \in DOMAIN members : members[i].host_key = h})]

\* C16: after enqueue_state_change(digest, members), the digest holds, for
\* every member of the list, an entry of its host_key with the snapshot of
\* the latest member of that host_key in the list.
C16_EnqueueCompleteness ==
    env.op = "enqueue" =>
        \A i \in DOMAIN env.members :
            \E e \in Range(node[DigestNode].state_changes) :
                /\ e.host_key = env.members[i].host_key
                /\ e = LatestOf(env.members, e.host_key)

Unique(state_changes) ==
    \A i, j \in DOMAIN state_changes :
        state_changes[i].host_key = state_changes[j].host_key => i = j

\* C17: the digest holds at most one entry per host_key; it is constructed
\* as the one entry of the reactor itself, Alive; enqueueing keeps every
\* entry at its position, and enqueueing one member replaces the entry of
\* its host_key in place, or appends it when the host_key is absent.
C17_DigestShape ==
    LET digest == node[DigestNode].state_changes
    IN  /\ Unique(digest)
        /\ env.op = "new" => digest = <<member_current(DigestNode)>>
        /\ env.op = "enqueue" =>
            /\ Len(digest) >= Len(env.before)
            /\ \A i \in DOMAIN env.before :
                   digest[i].host_key = env.before[i].host_key
            /\ Len(env.members) = 1 =>
                   LET m == env.members[1]
                       i == KeyIndex(env.before, m.host_key)
                   IN  digest = IF i # 0 THEN [env.before EXCEPT ![i] = m]
                                ELSE Append(env.before, m)

\* C17 witness: one member was enqueued whose host_key was in the digest,
\* neither first nor last of three, with another state: the entry is
\* replaced where it was.
C17_Witness ==
    /\ env.op = "enqueue"
    /\ Len(env.members) = 1
    /\ Len(env.before) = 3
    /\ env.before[2].host_key = env.members[1].host_key
    /\ env.before[2] # env.members[1]
    /\ node[DigestNode].state_changes[2] = env.members[1]

\* One step of the timeout path, or none.
OneStep(a, b) ==
    \/ a = b
    \/ a = Alive /\ b = Suspect
    \/ a = Suspect /\ b = Down

SeedPings(q) == [i \in DOMAIN q |-> React(TargetedRequest(Ping, q[i]))]

\* The loop passes its top; the interval has elapsed (a tick) or not.
PassesTop(n) ==
    /\ node[n].pc = "top"
    /\ node'[n].pc # "top"

Ticks(n) ==
    /\ PassesTop(n)
    /\ now - node[n].start >= node[n].config.ping_interval

HandlesAddSeed(n) ==
    /\ Handles(n)
    /\ Head(chan[n]).type = "AddSeed"

\* C19: AddSeed appends its address to the seed queue; a tick enqueues one
\* Ping for every entry of the seed queue, in order (and after them at most
\* the Ping of a random member), and nothing is enqueued at the top of the
\* loop without a tick; handling a datagram of the reactor's cluster removes
\* its source address from the queue, and nothing else changes the queue.
C19_SeedQueueProtocol ==
    [][\A n \in Nodes :
          /\ HandlesAddSeed(n) =>
                 node'[n].seed_queue =
                     Append(node[n].seed_queue, Head(chan[n]).addr)
          /\ Ticks(n) =>
                 LET expected == chan[n] \o SeedPings(node[n].seed_queue)
                 IN  /\ Len(chan'[n]) \in {Len(expected), Len(expected) + 1}
                     /\ SubSeq(chan'[n], 1, Len(expected)) = expected
          /\ (PassesTop(n) /\ ~Ticks(n)) => chan'[n] = chan[n]
          /\ Responds(n) =>
                 node'[n].seed_queue =
                     SelectSeq(node[n].seed_queue,
                               LAMBDA a : a # Head(chan[n]).src_addr)
          /\ node'[n].seed_queue # node[n].seed_queue =>
                 HandlesAddSeed(n) \/ Responds(n)]_vars

\* C19 witness: B has answered and is a member, C has not; the second tick
\* has just enqueued the seed Ping of C, and B is no longer a seed.
C19_Witness ==
    LET s == node[SelfKey]
    IN  /\ s.pc = "poll"
        /\ s.start = MaxTime
        /\ now = MaxTime
        /\ s.seed_queue = <<AddrOf("C")>>
        /\ members_has_member(s.members, AddrOf("B"))
        /\ ~members_has_member(s.members, AddrOf("C"))
        /\ chan[SelfKey] # <<>>
        /\ React(TargetedRequest(Ping, AddrOf("C"))) \in Range(chan[SelfKey])

\* The digest of reactor n when the Respond command at the head of its
\* channel reaches ack_response: the inbound digest is merged and the sender
\* is a member.
MidDigest(n) ==
    ensure_node_is_member(
        apply_state_changes(node[n], Head(chan[n]).message.state_changes,
                            Head(chan[n]).src_addr),
        Head(chan[n]).src_addr,
        Head(chan[n]).message.sender).state_changes

\* C20: an Ack removes an entry from the digest only if the state change the
\* entry holds was in the digest snapshot of a Ping that the Ack
\* acknowledges.
C20_AckKeepsUndisseminated ==
    [][\A n \in Nodes :
          Acks(n) =>
              \A c \in Range(MidDigest(n)) :
                  (\A e \in Range(node'[n].state_changes) :
                       e.host_key # c.host_key)
                  => \E p \in Range(node'[n].acked) :
                         c \in Range(p.state_changes)]_vars

\* The reactor n when the Respond command at the head of its channel
\* reaches ensure_node_is_member: the inbound digest is merged.
MidState(n) ==
    apply_state_changes(node[n], Head(chan[n]).message.state_changes,
                        Head(chan[n]).src_addr)

\* C21: ensure_node_is_member adds the sender to the table (the table has no
\* member at the source address) only when no member of the table has the
\* sender's host_key.
C21_AddOnlyUnknownHostKey ==
    [][\A n \in Nodes :
          (/\ Responds(n)
           /\ ~members_has_member(MidState(n).members, Head(chan[n]).src_addr))
          => KeyIndex(MidState(n).members, Head(chan[n]).message.sender) = 0]_vars

=============================================================================
